---- MODULE Spec2Model ----
(***************************************************************************)
(* Inter-country payments pallet (pallets/inter-country-payments/src/      *)
(* lib.rs): government registry, multi-signature payment state machine,   *)
(* fund reservation / settlement and the per-government history index.     *)
(*                                                                         *)
(* Storage items are the variables.  Every dispatchable is an operator     *)
(* from (storage, arguments) to [res, st]: res is "Ok" or the error the    *)
(* code returns, st the storage as the body left it when it returned.      *)
(* Dispatchables declared under #[pallet::call] run in a storage layer:    *)
(* with_storage_layer commits st on Ok and discards it on an error.        *)
(*                                                                         *)
(* The Currency (T::Currency) is the pallet's collaborator; it is modelled *)
(* by the contract of the Currency / ReservableCurrency traits the code    *)
(* calls: free and reserved balance per account, and a fallible call may   *)
(* be refused by the currency (locks, a dead beneficiary), which is an     *)
(* input of the step.                                                      *)
(*                                                                         *)
(* u64 and u128 are scaled down to U64Max and U128Max; saturating          *)
(* arithmetic clamps at these ceilings as the code's does at 2^64-1 and    *)
(* 2^128-1.                                                                *)
(***************************************************************************)
EXTENDS Integers, Sequences, FiniteSets, TLC

\* ------------------------------------------------------------------ bounds
\* scaled-down u128::MAX (amounts, balances, total volume)
U128Max == 4
\* Spec stops initiating once NextPaymentId reaches this
MaxPayments == 2
\* scaled-down u64::MAX (payment ids): the first id Spec never assigns
U64Max == MaxPayments

\* --------------------------------------------------------- runtime config
MaxCountryCodeLength == 3
MaxReferenceLength == 1
GovernmentTransactionFee == 1

\* ------------------------------------------------------------- the inputs
Accounts == {"X", "Y", "S"}
Origins == {"Root"} \cup Accounts
IND == <<"I", "N", "D">>
USA == <<"U", "S", "A">>
INDI == <<"I", "N", "D", "I">>
Treasury == "Treasury"
GovName == "name"
\* the register_government calls offered: <<origin, account, country_code,
\* government_name, institution_type, signature_threshold, authorized_signatories>>
RegisterRequests ==
    {<<"Root", "X", IND, GovName, Treasury, 1, <<"X", "S">>>>,
     <<"Root", "X", IND, GovName, Treasury, 2, <<"X", "S">>>>,
     <<"Root", "Y", IND, GovName, Treasury, 2, <<"S">>>>,
     <<"Root", "Y", USA, GovName, Treasury, 1, <<"S">>>>,
     <<"Root", "Y", INDI, GovName, Treasury, 1, <<"S">>>>,
     <<"Root", "X", USA, GovName, Treasury, 0, <<"S">>>>,
     <<"X", "Y", USA, GovName, Treasury, 1, <<"S">>>>}
\* the update_government_status calls offered: <<origin, government, new_status>>
UpdateRequests ==
    {<<"Root", "X", "Suspended">>, <<"Root", "X", "Active">>,
     <<"Root", "Y", "Revoked">>, <<"Root", "Y", "Active">>,
     <<"Root", "S", "Active">>, <<"X", "X", "Active">>}
GovernmentStatus == {"Active", "Suspended", "Pending", "Revoked"}
PaymentStatus == {"Pending", "Authorized", "Completed", "Failed", "Cancelled"}
\* the amounts offered: zero, small ones, and the two at the ceiling
Amounts == {0, 1, 2, U128Max - 1, U128Max}
PaymentIds == 0..U64Max
\* what X holds at the start; Y holds the rest of the issuance U128Max
InitialBalances == {U128Max}
TradeSettlement == "TradeSettlement"

VARIABLES
    GovernmentRegistry,        \* account -> GovernmentInfo
    CountryToAccount,          \* country code -> account
    PaymentRegistry,           \* payment id -> InterCountryPayment
    NextPaymentId,             \* u64
    TotalPaymentsVolume,       \* u128
    GovernmentPaymentHistory,  \* account -> Vec<u64>
    free,                      \* Currency: free balance of each account
    reserved                   \* Currency: reserved balance of each account

vars == <<GovernmentRegistry, CountryToAccount, PaymentRegistry, NextPaymentId,
          TotalPaymentsVolume, GovernmentPaymentHistory, free, reserved>>

\* ---------------------------------------------------------------- helpers
Min(a, b) == IF a <= b THEN a ELSE b

\* StorageMap::insert
Insert(map, key, value) ==
    [k \in (DOMAIN map) \cup {key} |-> IF k = key THEN value ELSE map[k]]

\* mutant: the addition wraps
wrapping_add(a, b) == (a + b) % (U128Max + 1)

\* u128::saturating_add
saturating_add(a, b) == Min(a + b, U128Max)

\* u64::saturating_add
saturating_add_u64(a, b) == Min(a + b, U64Max)

\* SaturatedConversion u128 -> Balance (Balance is as wide as u128)
BalanceMax == U128Max
saturated_into(x) == Min(x, BalanceMax)

\* Vec::contains
Contains(seq, x) == \E i \in 1..Len(seq) : seq[i] = x

current_timestamp == 0

\* The storage as one record
Storage ==
    [GovernmentRegistry |-> GovernmentRegistry,
     CountryToAccount |-> CountryToAccount,
     PaymentRegistry |-> PaymentRegistry,
     NextPaymentId |-> NextPaymentId,
     TotalPaymentsVolume |-> TotalPaymentsVolume,
     GovernmentPaymentHistory |-> GovernmentPaymentHistory,
     free |-> free,
     reserved |-> reserved]

Ok(s) == [res |-> "Ok", st |-> s]
Err(e, s) == [res |-> e, st |-> s]

\* ----------------------------------------------------------- the Currency
\* Currency::free_balance
free_balance(s, who) == s.free[who]

\* ReservableCurrency::reserve: all of value moves to reserved, or nothing
reserve(s, who, value, refused) ==
    IF refused \/ s.free[who] < value
    THEN Err("ReserveFailed", s)
    ELSE Ok([s EXCEPT !.free[who] = @ - value, !.reserved[who] = @ + value])

\* ReservableCurrency::unreserve: moves up to value, cannot fail
unreserve(s, who, value) ==
    LET actual == Min(s.reserved[who], value)
    IN  [s EXCEPT !.reserved[who] = @ - actual, !.free[who] = @ + actual]

\* ReservableCurrency::repatriate_reserved to the beneficiary's free balance:
\* moves up to value; an error moves nothing
repatriate_reserved(s, slashed, beneficiary, value, refused) ==
    LET actual == Min(s.reserved[slashed], value)
    IN  IF refused \/ s.free[beneficiary] + actual > BalanceMax
        THEN Err("TransferFailed", s)
        ELSE Ok([s EXCEPT !.reserved[slashed] = @ - actual,
                          !.free[beneficiary] = @ + actual])

\* Currency::withdraw (the imbalance is dropped: the value is burned)
withdraw(s, who, value, refused) ==
    IF refused \/ s.free[who] < value
    THEN Err("WithdrawFailed", s)
    ELSE Ok([s EXCEPT !.free[who] = @ - value])

\* mutant: no storage layer, what the body changed before its error stays
without_storage_layer(s, r) == r

\* ----------------------------------------------------- the storage layer
\* #[pallet::call]: a dispatchable's storage changes are kept on Ok and
\* discarded on Err
with_storage_layer(s, r) == IF r.res = "Ok" THEN r ELSE Err(r.res, s)

\* ------------------------------------------------------- dispatchables
\* mutant: the fee is left out of the reservation
total_cost_without_fee(amount) == amount

\* initiate_payment: the amount plus the fee, saturating
total_cost_of(amount) == saturating_add(amount, GovernmentTransactionFee)

\* sign_payment: the caller is among the required signers
is_authorized_signer(payment, who) == Contains(payment.required_signatures, who)

\* mutant: no check for an earlier signature of the caller
already_signed_unchecked(payment, who) == FALSE

\* sign_payment: the caller has signed already
already_signed(payment, who) ==
    \E i \in 1..Len(payment.signatures) : payment.signatures[i][1] = who

\* mutant: the threshold must be exceeded, not reached
threshold_met_strict(signatures, gov_info) ==
    Len(signatures) > gov_info.signature_threshold

\* mutant: the threshold is capped at the number of authorized signatories
threshold_met_capped(signatures, gov_info) ==
    Len(signatures) >= Min(gov_info.signature_threshold,
                           Len(gov_info.authorized_signatories))

\* sign_payment: the collected signatures reach the sender's threshold
threshold_met(signatures, gov_info) == Len(signatures) >= gov_info.signature_threshold

\* mutant: the fee is left out of what cancel_payment releases
total_reserved_without_fee(amount) == amount

\* cancel_payment: what is released, the amount plus the fee, saturating
total_reserved_of(amount) == saturating_add(amount, GovernmentTransactionFee)

\* mutant: the status of a government is not looked at
is_active_unchecked(gov_info) == TRUE

\* initiate_payment: the government's status is Active
is_active(gov_info) == gov_info.status = "Active"

\* mutant: a payment requires no signer
required_signatures_none(from_gov) == <<>>

\* initiate_payment: the signers a new payment requires
required_signatures_of(from_gov) == from_gov.authorized_signatories

\* mutant: the new id is put in front of the history
history_push_front(history, payment_id) == <<payment_id>> \o history

\* initiate_payment: history.push(payment_id)
history_push(history, payment_id) == Append(history, payment_id)

\* mutant: every caller counts as the initiator
is_initiator_unchecked(payment, who) == TRUE

\* cancel_payment: the caller is the initiating government
is_initiator(payment, who) == payment.from_government = who

\* register_government (call_index 0)
register_government(s, origin, account, country_code, government_name, institution_type, signature_threshold, authorized_signatories) ==
    IF origin # "Root" THEN Err("BadOrigin", s)
    ELSE IF ~(Len(country_code) <= MaxCountryCodeLength)
    THEN Err("CountryCodeTooLong", s)
    ELSE IF ~(signature_threshold > 0)
    THEN Err("InvalidSignatureThreshold", s)
    ELSE IF account \in DOMAIN s.GovernmentRegistry
    THEN Err("GovernmentAlreadyRegistered", s)
    ELSE
        LET gov_info == [country_code |-> country_code,
                         government_name |-> government_name,
                         institution_type |-> institution_type,
                         status |-> "Active",
                         signature_threshold |-> signature_threshold,
                         authorized_signatories |-> authorized_signatories,
                         registered_at |-> current_timestamp]
        IN  Ok([s EXCEPT
                !.GovernmentRegistry = Insert(@, account, gov_info),
                !.CountryToAccount = Insert(@, country_code, account)])

\* initiate_payment (call_index 1)
initiate_payment(s, origin, to_government, amount, purpose, reference, refused) ==
    IF origin = "Root" THEN Err("BadOrigin", s)
    ELSE IF ~(amount > 0) THEN Err("ZeroAmount", s)
    ELSE IF ~(origin # to_government) THEN Err("SelfPayment", s)
    ELSE IF ~(Len(reference) <= MaxReferenceLength) THEN Err("ReferenceTooLong", s)
    ELSE IF origin \notin DOMAIN s.GovernmentRegistry THEN Err("GovernmentNotFound", s)
    ELSE IF to_government \notin DOMAIN s.GovernmentRegistry
    THEN Err("GovernmentNotFound", s)
    ELSE IF ~is_active(s.GovernmentRegistry[origin])
    THEN Err("GovernmentNotActive", s)
    ELSE IF ~is_active(s.GovernmentRegistry[to_government])
    THEN Err("GovernmentNotActive", s)
    ELSE
        LET who == origin
            from_gov == s.GovernmentRegistry[who]
            total_cost == total_cost_of(amount)
            balance == free_balance(s, who)
        IN  IF ~(balance >= saturated_into(total_cost))
            THEN Err("InsufficientBalance", s)
            ELSE
            LET r1 == reserve(s, who, saturated_into(total_cost), refused)
            IN  IF r1.res # "Ok" THEN r1
                ELSE
                LET s1 == r1.st
                    payment_id == s1.NextPaymentId
                    payment == [payment_id |-> payment_id,
                                from_government |-> who,
                                to_government |-> to_government,
                                amount |-> amount,
                                purpose |-> purpose,
                                reference |-> reference,
                                required_signatures |-> required_signatures_of(from_gov),
                                signatures |-> <<>>,
                                timestamp |-> current_timestamp,
                                status |-> "Pending"]
                    history == IF who \in DOMAIN s1.GovernmentPaymentHistory
                               THEN s1.GovernmentPaymentHistory[who]
                               ELSE <<>>
                IN  Ok([s1 EXCEPT
                        !.PaymentRegistry = Insert(@, payment_id, payment),
                        !.NextPaymentId = saturating_add_u64(payment_id, 1),
                        !.GovernmentPaymentHistory =
                            Insert(@, who, history_push(history, payment_id))])

\* sign_payment (call_index 2)
sign_payment(s, origin, payment_id, signature) ==
    IF origin = "Root" THEN Err("BadOrigin", s)
    ELSE IF payment_id \notin DOMAIN s.PaymentRegistry THEN Err("PaymentNotFound", s)
    ELSE
        LET who == origin
            payment == s.PaymentRegistry[payment_id]
        IN  IF payment.status # "Pending" THEN Err("PaymentNotPending", s)
            ELSE IF ~is_authorized_signer(payment, who)
            THEN Err("NotAuthorizedSigner", s)
            ELSE IF already_signed(payment, who)
            THEN Err("SignatureAlreadyProvided", s)
            ELSE
            LET signatures == Append(payment.signatures, <<who, signature>>)
            IN  IF payment.from_government \notin DOMAIN s.GovernmentRegistry
                THEN Err("GovernmentNotFound", s)
                ELSE
                LET gov_info == s.GovernmentRegistry[payment.from_government]
                    status == IF threshold_met(signatures, gov_info)
                              THEN "Authorized"
                              ELSE payment.status
                IN  Ok([s EXCEPT !.PaymentRegistry[payment_id] =
                            [payment EXCEPT !.signatures = signatures,
                                            !.status = status]])

\* mutant: execute_payment refusing a payment whose sender is not Active
execute_payment_active_sender(s, origin, payment_id, transfer_refused, withdraw_refused) ==
    IF origin = "Root" THEN Err("BadOrigin", s)
    ELSE IF payment_id \notin DOMAIN s.PaymentRegistry THEN Err("PaymentNotFound", s)
    ELSE
        LET payment == s.PaymentRegistry[payment_id]
        IN  IF payment.status # "Authorized" THEN Err("PaymentNotPending", s)
            ELSE IF ~is_active(s.GovernmentRegistry[payment.from_government])
            THEN Err("GovernmentNotActive", s)
            ELSE
            LET r1 == repatriate_reserved(s, payment.from_government,
                                          payment.to_government,
                                          saturated_into(payment.amount),
                                          transfer_refused)
            IN  IF r1.res # "Ok" THEN r1
                ELSE
                LET fee_amount == saturated_into(GovernmentTransactionFee)
                    s2 == unreserve(r1.st, payment.from_government, fee_amount)
                    r3 == withdraw(s2, payment.from_government, fee_amount,
                                   withdraw_refused)
                IN  IF r3.res # "Ok" THEN r3
                    ELSE Ok([r3.st EXCEPT
                             !.PaymentRegistry[payment_id].status = "Completed",
                             !.TotalPaymentsVolume =
                                 saturating_add(@, payment.amount)])

\* execute_payment (call_index 3)
execute_payment(s, origin, payment_id, transfer_refused, withdraw_refused) ==
    IF origin = "Root" THEN Err("BadOrigin", s)
    ELSE IF payment_id \notin DOMAIN s.PaymentRegistry THEN Err("PaymentNotFound", s)
    ELSE
        LET payment == s.PaymentRegistry[payment_id]
        IN  IF payment.status # "Authorized" THEN Err("PaymentNotPending", s)
            ELSE
            LET r1 == repatriate_reserved(s, payment.from_government,
                                          payment.to_government,
                                          saturated_into(payment.amount),
                                          transfer_refused)
            IN  IF r1.res # "Ok" THEN r1
                ELSE
                LET fee_amount == saturated_into(GovernmentTransactionFee)
                    s2 == unreserve(r1.st, payment.from_government, fee_amount)
                    r3 == withdraw(s2, payment.from_government, fee_amount,
                                   withdraw_refused)
                IN  IF r3.res # "Ok" THEN r3
                    ELSE Ok([r3.st EXCEPT
                             !.PaymentRegistry[payment_id].status = "Completed",
                             !.TotalPaymentsVolume =
                                 saturating_add(@, payment.amount)])

\* mutant: cancel_payment without its status check
cancel_payment_any_status(s, origin, payment_id, reason) ==
    IF origin = "Root" THEN Err("BadOrigin", s)
    ELSE IF payment_id \notin DOMAIN s.PaymentRegistry THEN Err("PaymentNotFound", s)
    ELSE
        LET who == origin
            payment == s.PaymentRegistry[payment_id]
        IN  IF ~(payment.from_government = who) THEN Err("NotAuthorizedSigner", s)
            ELSE
            LET total_reserved == total_reserved_of(payment.amount)
                s1 == unreserve(s, who, saturated_into(total_reserved))
            IN  Ok([s1 EXCEPT !.PaymentRegistry[payment_id].status = "Cancelled"])

\* cancel_payment (call_index 4)
cancel_payment(s, origin, payment_id, reason) ==
    IF origin = "Root" THEN Err("BadOrigin", s)
    ELSE IF payment_id \notin DOMAIN s.PaymentRegistry THEN Err("PaymentNotFound", s)
    ELSE
        LET who == origin
            payment == s.PaymentRegistry[payment_id]
        IN  IF payment.status # "Pending" THEN Err("PaymentNotPending", s)
            ELSE IF ~is_initiator(payment, who) THEN Err("NotAuthorizedSigner", s)
            ELSE
            LET total_reserved == total_reserved_of(payment.amount)
                s1 == unreserve(s, who, saturated_into(total_reserved))
            IN  Ok([s1 EXCEPT !.PaymentRegistry[payment_id].status = "Cancelled"])

\* mutant: update_government_status refuses a Revoked government
update_government_status_revoked_final(s, origin, government, new_status) ==
    IF origin # "Root" THEN Err("BadOrigin", s)
    ELSE IF government \notin DOMAIN s.GovernmentRegistry
    THEN Err("GovernmentNotFound", s)
    ELSE IF s.GovernmentRegistry[government].status = "Revoked"
    THEN Err("GovernmentNotActive", s)
    ELSE Ok([s EXCEPT !.GovernmentRegistry[government].status = new_status])

\* update_government_status (call_index 5)
update_government_status(s, origin, government, new_status) ==
    IF origin # "Root" THEN Err("BadOrigin", s)
    ELSE IF government \notin DOMAIN s.GovernmentRegistry
    THEN Err("GovernmentNotFound", s)
    ELSE Ok([s EXCEPT !.GovernmentRegistry[government].status = new_status])

\* mutant: the fold counts a payment whatever its status
RECURSIVE fold_stats_any_status(_, _, _, _)
fold_stats_any_status(s, account, history, n) ==
    IF n = 0 THEN <<0, 0>>
    ELSE
        LET acc == fold_stats_any_status(s, account, history, n - 1)
            id == history[n]
        IN  IF id \notin DOMAIN s.PaymentRegistry THEN acc
            ELSE
            LET payment == s.PaymentRegistry[id]
            IN  IF payment.from_government = account
                THEN <<saturating_add(acc[1], payment.amount), acc[2]>>
                ELSE IF payment.to_government = account
                THEN <<acc[1], saturating_add(acc[2], payment.amount)>>
                ELSE acc

\* get_government_stats, the fold: <<total_sent, total_received>> over the
\* first n ids of history; an id without a record is skipped (filter_map)
RECURSIVE fold_stats(_, _, _, _)
fold_stats(s, account, history, n) ==
    IF n = 0 THEN <<0, 0>>
    ELSE
        LET acc == fold_stats(s, account, history, n - 1)
            sent == acc[1]
            received == acc[2]
            id == history[n]
        IN  IF id \notin DOMAIN s.PaymentRegistry THEN acc
            ELSE
            LET payment == s.PaymentRegistry[id]
            IN  IF payment.status = "Completed"
                THEN IF payment.from_government = account
                     THEN <<saturating_add(sent, payment.amount), received>>
                     ELSE IF payment.to_government = account
                     THEN <<sent, saturating_add(received, payment.amount)>>
                     ELSE <<sent, received>>
                ELSE <<sent, received>>

\* get_government_stats: history.len() as u32; usize is 32 bits wide in the
\* runtime (wasm32), so the cast keeps the length
payment_count_of(history) == Len(history)

\* get_government_stats: None for an account without a history list, else
\* Some((payment_count, total_sent, total_received))
get_government_stats(s, account) ==
    IF account \notin DOMAIN s.GovernmentPaymentHistory
    THEN [some |-> FALSE]
    ELSE
        LET history == s.GovernmentPaymentHistory[account]
            totals == fold_stats(s, account, history, Len(history))
        IN  [some |-> TRUE,
             payment_count |-> payment_count_of(history),
             total_sent |-> totals[1],
             total_received |-> totals[2]]

\* ------------------------------------------------------------ the machine
EmptyMap == [k \in {} |-> 0]

Init ==
    /\ GovernmentRegistry = EmptyMap
    /\ CountryToAccount = EmptyMap
    /\ PaymentRegistry = EmptyMap
    /\ NextPaymentId = 0
    /\ TotalPaymentsVolume = 0
    /\ GovernmentPaymentHistory = EmptyMap
    /\ \E x \in InitialBalances :
          free = [a \in Accounts |-> IF a = "X" THEN x
                                    ELSE IF a = "Y" THEN U128Max - x ELSE 0]
    /\ reserved = [a \in Accounts |-> 0]

\* What a call returns and leaves: the body run in its storage layer
dispatch(s, r) == with_storage_layer(s, r)

\* The calls, on the current storage
CallRegister(q) ==
    dispatch(Storage, register_government(Storage, q[1], q[2], q[3], q[4], q[5],
                                          q[6], q[7]))
CallInitiate(origin, to_government, amount, reference, refused) ==
    dispatch(Storage, initiate_payment(Storage, origin, to_government, amount,
                                       TradeSettlement, reference, refused))
CallSign(origin, payment_id) ==
    dispatch(Storage, sign_payment(Storage, origin, payment_id, <<>>))
CallExecute(origin, payment_id, transfer_refused, withdraw_refused) ==
    dispatch(Storage, execute_payment(Storage, origin, payment_id, transfer_refused,
                                      withdraw_refused))
CallCancel(origin, payment_id) ==
    dispatch(Storage, cancel_payment(Storage, origin, payment_id, <<>>))
CallUpdate(q) ==
    dispatch(Storage, update_government_status(Storage, q[1], q[2], q[3]))

\* One call: the storage becomes what the call left (a call that returns an
\* error leaves the storage as it was, and the step stutters)
Apply(r) ==
    /\ GovernmentRegistry' = r.st.GovernmentRegistry
    /\ CountryToAccount' = r.st.CountryToAccount
    /\ PaymentRegistry' = r.st.PaymentRegistry
    /\ NextPaymentId' = r.st.NextPaymentId
    /\ TotalPaymentsVolume' = r.st.TotalPaymentsVolume
    /\ GovernmentPaymentHistory' = r.st.GovernmentPaymentHistory
    /\ free' = r.st.free
    /\ reserved' = r.st.reserved

RegisterGovernment(requests) == \E q \in requests : Apply(CallRegister(q))

\* the initiate_payment calls offered: <<origin, to_government, amount,
\* reference, reservation refused by the currency>>; every signed caller to
\* every account with every amount, and one call each by root, with a long
\* reference and with the reservation refused
InitiateRequests(amounts) ==
    {<<o, g, a, <<>>, FALSE>> : o \in Accounts, g \in Accounts, a \in amounts}
        \cup {<<"Root", "Y", 1, <<>>, FALSE>>, <<"X", "Y", 1, <<"r", "r">>, FALSE>>,
               <<"X", "Y", 1, <<>>, TRUE>>}

InitiatePayment(amounts) ==
    \E q \in InitiateRequests(amounts) :
        Apply(CallInitiate(q[1], q[2], q[3], q[4], q[5]))

SignPayment ==
    \E origin \in Origins, payment_id \in PaymentIds : Apply(CallSign(origin, payment_id))

\* the execute_payment calls offered: <<origin, payment_id, transfer refused
\* by the currency, fee withdrawal refused by the currency>>
ExecuteRequests ==
    {<<o, id, FALSE, FALSE>> : o \in Origins, id \in PaymentIds}
        \cup {<<"S", id, TRUE, FALSE>> : id \in PaymentIds}
        \cup {<<"S", id, FALSE, TRUE>> : id \in PaymentIds}

ExecutePayment ==
    \E q \in ExecuteRequests : Apply(CallExecute(q[1], q[2], q[3], q[4]))

CancelPayment ==
    \E origin \in Origins, payment_id \in PaymentIds :
        Apply(CallCancel(origin, payment_id))

UpdateGovernmentStatus(requests) == \E q \in requests : Apply(CallUpdate(q))

\* Spec: the payment-id counter stays below MaxPayments
Next ==
    \/ RegisterGovernment(RegisterRequests)
    \/ (NextPaymentId < MaxPayments /\ InitiatePayment(Amounts))
    \/ SignPayment
    \/ ExecutePayment
    \/ CancelPayment
    \/ UpdateGovernmentStatus(UpdateRequests)

Spec == Init /\ [][Next]_vars

\* SpecCeil: the payment-id counter runs into its ceiling U64Max; fewer
\* registrations, status updates and amounts are offered
CeilRegisterRequests ==
    {<<"Root", "X", IND, GovName, Treasury, 1, <<"X", "S">>>>,
     <<"Root", "Y", USA, GovName, Treasury, 1, <<"S">>>>}
CeilUpdateRequests == {<<"Root", "Y", "Revoked">>, <<"Root", "Y", "Active">>}
CeilAmounts == {1}
\* the initiations so far (every one appends to a history list)
RECURSIVE SumLen(_, _)
SumLen(map, keys) ==
    IF keys = {} THEN 0
    ELSE LET k == CHOOSE x \in keys : TRUE
         IN  Len(map[k]) + SumLen(map, keys \ {k})
Initiations == SumLen(GovernmentPaymentHistory, DOMAIN GovernmentPaymentHistory)
\* SpecCeil offers two initiations at the ceiling
MaxCeilInitiations == U64Max + 2

NextCeil ==
    \/ RegisterGovernment(CeilRegisterRequests)
    \/ (Initiations < MaxCeilInitiations /\ InitiatePayment(CeilAmounts))
    \/ SignPayment
    \/ ExecutePayment
    \/ CancelPayment
    \/ UpdateGovernmentStatus(CeilUpdateRequests)

SpecCeil == Init /\ [][NextCeil]_vars

\* SpecOver: governments whose threshold is above the number of distinct
\* accounts in their signatory list are offered next to one that can
\* authorize its payments
OverRegisterRequests ==
    {<<"Root", "X", IND, GovName, Treasury, 1, <<"X", "S">>>>,
     <<"Root", "X", IND, GovName, Treasury, 3, <<"X", "S">>>>,
     <<"Root", "Y", USA, GovName, Treasury, 2, <<"S">>>>,
     <<"Root", "Y", USA, GovName, Treasury, 2, <<"S", "S">>>>}
OverUpdateRequests == {<<"Root", "X", "Suspended">>, <<"Root", "X", "Active">>}
OverAmounts == {1, 2, U128Max}

NextOver ==
    \/ RegisterGovernment(OverRegisterRequests)
    \/ (NextPaymentId < MaxPayments /\ InitiatePayment(OverAmounts))
    \/ SignPayment
    \/ ExecutePayment
    \/ CancelPayment
    \/ UpdateGovernmentStatus(OverUpdateRequests)

SpecOver == Init /\ [][NextOver]_vars

\* ------------------------------------------------------------- the claims
Terminal == {"Completed", "Cancelled", "Failed"}
Payments == DOMAIN PaymentRegistry
RegisterOk(q) == q[1] = "Root" /\ Len(q[3]) <= MaxCountryCodeLength /\ q[6] > 0

\* C1 (as claimed): every country code is held by at most one registered
\* account, and a register_government call whose account or country code
\* already maps to a record fails with GovernmentAlreadyRegistered and leaves
\* GovernmentRegistry and CountryToAccount unchanged
C1_OneAccountPerCountryCode ==
    /\ \A a, b \in DOMAIN GovernmentRegistry :
          GovernmentRegistry[a].country_code = GovernmentRegistry[b].country_code
              => a = b
    /\ \A q \in RegisterRequests :
          (/\ RegisterOk(q)
           /\ q[2] \in DOMAIN GovernmentRegistry \/ q[3] \in DOMAIN CountryToAccount)
          => /\ CallRegister(q).res = "GovernmentAlreadyRegistered"
             /\ CallRegister(q).st.GovernmentRegistry = GovernmentRegistry
             /\ CallRegister(q).st.CountryToAccount = CountryToAccount

\* C2, the calls: on a payment that is not Pending, sign_payment and
\* cancel_payment fail with PaymentNotPending for every caller; on a payment
\* that is not Authorized, execute_payment fails with PaymentNotPending
C2_StatusGuards ==
    \A id \in Payments, who \in Accounts :
        /\ PaymentRegistry[id].status # "Pending"
           => /\ CallSign(who, id).res = "PaymentNotPending"
              /\ CallCancel(who, id).res = "PaymentNotPending"
        /\ PaymentRegistry[id].status # "Authorized"
           => \A tr, wr \in BOOLEAN :
                 CallExecute(who, id, tr, wr).res = "PaymentNotPending"

\* C2, the steps: a payment that is Completed, Cancelled or Failed keeps its
\* status; a status changes only from Pending or, to Completed, from Authorized
C2_TerminalStays ==
    \A id \in Payments :
        /\ id \in DOMAIN PaymentRegistry'
        /\ PaymentRegistry[id].status \in Terminal
           => PaymentRegistry'[id].status = PaymentRegistry[id].status
        /\ PaymentRegistry'[id].status # PaymentRegistry[id].status
           => \/ PaymentRegistry[id].status = "Pending"
              \/ /\ PaymentRegistry[id].status = "Authorized"
                 /\ PaymentRegistry'[id].status = "Completed"

\* C2: execute_payment succeeds only from Authorized, sign_payment and
\* cancel_payment only from Pending, every other status gives
\* PaymentNotPending, and a terminal status never changes
C2_StatusPreconditions == []C2_StatusGuards /\ [][C2_TerminalStays]_vars

\* C2 witness: a payment has been cancelled and its initiator cancels again
C2_Witness ==
    \E id \in Payments :
        /\ PaymentRegistry[id].status = "Cancelled"
        /\ CallCancel(PaymentRegistry[id].from_government, id).res = "PaymentNotPending"

\* the signatures of payment id grew by one in this step
Signed(id) ==
    /\ id \in Payments
    /\ Len(PaymentRegistry'[id].signatures) = Len(PaymentRegistry[id].signatures) + 1

CurrentThreshold(id) ==
    GovernmentRegistry[PaymentRegistry[id].from_government].signature_threshold

\* C3: a payment becomes Authorized exactly in a step that appends a
\* signature to a Pending payment and brings the count to at least the
\* sender's threshold as the registry holds it at that step; a signature
\* that leaves the count below it leaves the payment Pending; a payment is
\* created Pending
C3_AuthorizedAtThreshold ==
    [][\A id \in DOMAIN PaymentRegistry' :
          IF id \in Payments
          THEN /\ (/\ PaymentRegistry'[id].status = "Authorized"
                    /\ PaymentRegistry[id].status # "Authorized")
                   => /\ PaymentRegistry[id].status = "Pending"
                      /\ Signed(id)
                      /\ Len(PaymentRegistry'[id].signatures) >= CurrentThreshold(id)
               /\ (Signed(id) /\ PaymentRegistry[id].status = "Pending")
                   => PaymentRegistry'[id].status =
                        IF Len(PaymentRegistry'[id].signatures) >= CurrentThreshold(id)
                        THEN "Authorized" ELSE "Pending"
          ELSE PaymentRegistry'[id].status = "Pending"]_vars

\* C3 witness: a payment of a threshold-2 sender was left Pending by its
\* first signature and Authorized by its second
C3_Witness ==
    \E id \in Payments :
        /\ PaymentRegistry[id].status = "Authorized"
        /\ Len(PaymentRegistry[id].signatures) = 2
        /\ CurrentThreshold(id) = 2

\* C4 (as claimed): when the transfer of execute_payment succeeds and the
\* fee withdrawal faults, the payment is left with status Failed, and a
\* later execute_payment of it does not succeed
C4_FeeFaultMarksFailed ==
    \A id \in Payments, who \in Accounts :
        LET body == execute_payment(Storage, who, id, FALSE, TRUE)
            left == dispatch(Storage, body).st
        IN  body.res = "WithdrawFailed"
            => /\ left.PaymentRegistry[id].status = "Failed"
               /\ dispatch(left, execute_payment(left, who, id, FALSE, FALSE)).res # "Ok"

\* the call either succeeded or left the storage as it was
Unchanged(r) == r.res # "Ok" => r.st = Storage

Open(a) ==
    {id \in Payments : /\ PaymentRegistry[id].from_government = a
                       /\ PaymentRegistry[id].status \in {"Pending", "Authorized"}}

\* the sum of f[id] over ids
RECURSIVE SumOver(_, _)
SumOver(ids, f) ==
    IF ids = {} THEN 0
    ELSE LET id == CHOOSE x \in ids : TRUE
         IN  f[id] + SumOver(ids \ {id}, f)

AmountPlusFee(id) == PaymentRegistry[id].amount + GovernmentTransactionFee
ClampedCost(id) == Min(AmountPlusFee(id), U128Max)
AmountOf(id) == PaymentRegistry[id].amount

\* C6 (as claimed): for every account, the sum of amount + fee over its
\* Pending and Authorized payments is at most its reserved balance
C6_ReservedCoversAmountPlusFee ==
    \A a \in Accounts : SumOver(Open(a), [id \in Payments |-> AmountPlusFee(id)]) <= reserved[a]

\* C6 (amended): for every account, the sum of min(amount + fee, ceiling)
\* over its Pending and Authorized payments is at most its reserved balance
C6_ReservedCoversClampedCost ==
    \A a \in Accounts : SumOver(Open(a), [id \in Payments |-> ClampedCost(id)]) <= reserved[a]

\* C6 witness: a payment whose amount + fee exceeds the ceiling holds a
\* reservation
C6_Witness ==
    \E a \in Accounts : \E id \in Open(a) :
        AmountPlusFee(id) > U128Max /\ reserved[a] = U128Max

\* C7: in every payment each collected signer is a required signer and
\* appears once; on a Pending payment sign_payment fails with
\* NotAuthorizedSigner for a caller who is not required and with
\* SignatureAlreadyProvided for a required caller who has signed
C7_SignersRequiredOnce ==
    \A id \in Payments :
        LET p == PaymentRegistry[id]
            signer(i) == p.signatures[i][1]
        IN  /\ \A i \in 1..Len(p.signatures) : Contains(p.required_signatures, signer(i))
            /\ \A i, j \in 1..Len(p.signatures) : signer(i) = signer(j) => i = j
            /\ p.status = "Pending"
               => \A who \in Accounts :
                     IF ~Contains(p.required_signatures, who)
                     THEN CallSign(who, id).res = "NotAuthorizedSigner"
                     ELSE (\E i \in 1..Len(p.signatures) : signer(i) = who)
                          => CallSign(who, id).res = "SignatureAlreadyProvided"

\* C7 witness: a Pending payment holds one signature; its signer signs
\* again and an account that is not required signs
C7_Witness ==
    \E id \in Payments :
        /\ PaymentRegistry[id].status = "Pending"
        /\ Len(PaymentRegistry[id].signatures) = 1
        /\ CallSign(PaymentRegistry[id].signatures[1][1], id).res
              = "SignatureAlreadyProvided"
        /\ \E who \in Accounts : CallSign(who, id).res = "NotAuthorizedSigner"

\* account a initiated a payment in this step (its history grew); the id
\* it was given
Initiated(a) ==
    /\ a \in DOMAIN GovernmentPaymentHistory'
    /\ Len(GovernmentPaymentHistory'[a]) =
          (IF a \in DOMAIN GovernmentPaymentHistory
           THEN Len(GovernmentPaymentHistory[a]) ELSE 0) + 1
AssignedId(a) == GovernmentPaymentHistory'[a][Len(GovernmentPaymentHistory'[a])]

\* C8 (as claimed): a successful initiate_payment is given an id greater
\* than every id given before and overwrites no payment record, also at the
\* ceiling of the id counter
C8_IdsStrictlyIncrease ==
    [][\A a \in Accounts :
          Initiated(a) => /\ AssignedId(a) \notin Payments
                          /\ \A id \in Payments : id < AssignedId(a)]_vars

\* payment id went from Authorized to Completed in this step
Executed(id) ==
    /\ id \in Payments
    /\ PaymentRegistry[id].status = "Authorized"
    /\ PaymentRegistry'[id].status = "Completed"

\* C9 (as claimed): a successful initiate_payment of amount A moves exactly
\* A + F from the sender's free to its reserved balance; a successful
\* execute_payment adds exactly A to the recipient's free balance, takes
\* exactly A + F from the sender's reserved balance, leaves the sender's
\* free balance alone and adds A to the total volume
C9_ExactAmounts ==
    [][/\ \A a \in Accounts :
            Initiated(a)
            => LET A == PaymentRegistry'[AssignedId(a)].amount
               IN  /\ free'[a] = free[a] - (A + GovernmentTransactionFee)
                   /\ reserved'[a] = reserved[a] + (A + GovernmentTransactionFee)
       /\ \A id \in Payments :
            Executed(id)
            => LET A == PaymentRegistry[id].amount
                   X == PaymentRegistry[id].from_government
                   Y == PaymentRegistry[id].to_government
               IN  /\ free'[Y] = free[Y] + A
                   /\ reserved'[X] = reserved[X] - (A + GovernmentTransactionFee)
                   /\ free'[X] = free[X]
                   /\ TotalPaymentsVolume' = TotalPaymentsVolume + A]_vars

\* C9 (amended): a successful initiate_payment of amount A moves exactly
\* min(A + F, ceiling) from the sender's free to its reserved balance; a
\* successful execute_payment adds exactly A to the recipient's free balance,
\* takes exactly A + F from the sender's reserved balance, leaves the
\* sender's free balance alone and adds A to the total volume, which stops
\* at the ceiling
C9_ClampedAmounts ==
    [][/\ \A a \in Accounts :
            Initiated(a)
            => LET A == PaymentRegistry'[AssignedId(a)].amount
                   moved == Min(A + GovernmentTransactionFee, U128Max)
               IN  /\ free'[a] = free[a] - moved
                   /\ reserved'[a] = reserved[a] + moved
       /\ \A id \in Payments :
            Executed(id)
            => LET A == PaymentRegistry[id].amount
                   X == PaymentRegistry[id].from_government
                   Y == PaymentRegistry[id].to_government
               IN  /\ free'[Y] = free[Y] + A
                   /\ reserved'[X] = reserved[X] - (A + GovernmentTransactionFee)
                   /\ free'[X] = free[X]
                   /\ TotalPaymentsVolume' = Min(TotalPaymentsVolume + A, U128Max)]_vars

\* C9 witness: the first payment, from X to Y, is Completed: Y holds the
\* amount, X holds what it had less the amount and the fee, nothing is
\* reserved and the volume is the amount
C9_Witness ==
    \E id \in Payments :
        LET p == PaymentRegistry[id]
        IN  /\ p.status = "Completed"
            /\ p.from_government = "X" /\ p.to_government = "Y"
            /\ free["Y"] = p.amount
            /\ free["X"] = U128Max - p.amount - GovernmentTransactionFee
            /\ reserved["X"] = 0
            /\ TotalPaymentsVolume = p.amount

\* C10, the states: the total volume is the saturating sum of the amounts of
\* the Completed payments
Completed == {id \in Payments : PaymentRegistry[id].status = "Completed"}
C10_VolumeIsCompletedSum ==
    TotalPaymentsVolume = Min(SumOver(Completed, [id \in Payments |-> AmountOf(id)]), U128Max)

\* C10, the steps: the total volume changes only in a step that completes a
\* payment, and a step that completes a payment adds its amount, up to the
\* ceiling
C10_VolumeStep ==
    /\ TotalPaymentsVolume' # TotalPaymentsVolume => \E id \in Payments : Executed(id)
    /\ \A id \in Payments :
          Executed(id) => TotalPaymentsVolume' =
                            Min(TotalPaymentsVolume + PaymentRegistry[id].amount, U128Max)

\* C10 (amended): TotalPaymentsVolume is the saturating sum of the Completed
\* amounts and only a successful execute_payment changes it, by the
\* payment's amount or up to the ceiling when the sum would pass it
C10_TotalVolume == []C10_VolumeIsCompletedSum /\ [][C10_VolumeStep]_vars

\* C10 (as claimed): TotalPaymentsVolume is the saturating sum of the
\* Completed amounts and only a successful execute_payment changes it, by
\* exactly the payment's amount
C10_TotalVolumeExact ==
    /\ []C10_VolumeIsCompletedSum
    /\ [][/\ TotalPaymentsVolume' # TotalPaymentsVolume
             => \E id \in Payments : Executed(id)
          /\ \A id \in Payments :
                Executed(id) => TotalPaymentsVolume' =
                                  TotalPaymentsVolume + PaymentRegistry[id].amount]_vars

\* C10 witness: two payments are Completed and their amounts exceed the
\* ceiling, where the volume stands
C10_Witness ==
    /\ SumOver(Completed, [id \in Payments |-> AmountOf(id)]) > U128Max
    /\ TotalPaymentsVolume = U128Max

\* payment id went from Pending to Cancelled in this step
Cancelled(id) ==
    /\ id \in Payments
    /\ PaymentRegistry[id].status = "Pending"
    /\ PaymentRegistry'[id].status = "Cancelled"

\* C11, the round trip: after a successful initiate_payment, cancel_payment
\* of the new payment by the initiator succeeds, leaves every free and
\* reserved balance as it was before the initiate and the payment Cancelled
C11_RoundTrip ==
    \A origin \in Accounts, to \in Accounts, amount \in Amounts :
        LET r == CallInitiate(origin, to, amount, <<>>, FALSE)
            id == NextPaymentId
            c == dispatch(r.st, cancel_payment(r.st, origin, id, <<>>))
        IN  r.res = "Ok"
            => /\ r.st.reserved[origin] > reserved[origin]
               /\ c.res = "Ok"
               /\ c.st.free = free
               /\ c.st.reserved = reserved
               /\ c.st.TotalPaymentsVolume = TotalPaymentsVolume
               /\ c.st.PaymentRegistry[id].status = "Cancelled"

\* C11, the steps: a step that cancels a payment moves the whole reservation
\* of the payment from the sender's reserved to its free balance and touches
\* no other balance
C11_CancelStep ==
    \A id \in Payments :
        Cancelled(id)
        => LET X == PaymentRegistry[id].from_government
           IN  /\ free' = [free EXCEPT ![X] = @ + ClampedCost(id)]
               /\ reserved' = [reserved EXCEPT ![X] = @ - ClampedCost(id)]

\* C11: initiate_payment followed by a successful cancel_payment of the same
\* payment by the initiator restores the sender's free and reserved balance
\* (the whole reservation is released, nothing is burned or transferred) and
\* the payment's status becomes Cancelled
C11_CancelRestores == []C11_RoundTrip /\ [][C11_CancelStep]_vars

\* C11 witness: the only payment, from X, was cancelled: nothing is
\* reserved, nothing was burned and nothing reached Y beyond what it had
C11_Witness ==
    /\ Payments = {0}
    /\ PaymentRegistry[0].status = "Cancelled"
    /\ PaymentRegistry[0].from_government = "X"
    /\ reserved["X"] = 0
    /\ free["X"] + free["Y"] = U128Max
    /\ free["X"] \in InitialBalances

Registered(a) == a \in DOMAIN GovernmentRegistry

\* C12, the calls: a signed initiate_payment with amount > 0, another
\* recipient and a reference within its length fails with GovernmentNotFound
\* if either party has no record and, both having one, with
\* GovernmentNotActive if either is not Active, also right after either has
\* been set to Suspended, Pending or Revoked; no initiate_payment succeeds
\* otherwise; every payment record has two different parties and amount > 0
C12_ActiveParties ==
    /\ \A q \in InitiateRequests(Amounts) :
          LET origin == q[1]
              to == q[2]
              r == CallInitiate(origin, to, q[3], q[4], q[5])
              pre == /\ origin # "Root" /\ q[3] > 0 /\ origin # to
                     /\ Len(q[4]) <= MaxReferenceLength
              both == Registered(origin) /\ Registered(to)
          IN  /\ r.res = "Ok"
                 => /\ pre /\ both
                    /\ GovernmentRegistry[origin].status = "Active"
                    /\ GovernmentRegistry[to].status = "Active"
              /\ (pre /\ ~both) => r.res = "GovernmentNotFound"
              /\ (/\ pre /\ both
                  /\ \/ GovernmentRegistry[origin].status # "Active"
                     \/ GovernmentRegistry[to].status # "Active")
                 => r.res = "GovernmentNotActive"
    /\ \A origin \in Accounts, to \in Accounts, party \in Accounts,
          status \in GovernmentStatus \ {"Active"} :
          (/\ origin # to /\ party \in {origin, to}
           /\ Registered(origin) /\ Registered(to))
          => LET s == CallUpdate(<<"Root", party, status>>).st
             IN  dispatch(s, initiate_payment(s, origin, to, 1, TradeSettlement,
                                              <<>>, FALSE)).res
                     = "GovernmentNotActive"
    /\ \A id \in Payments :
          /\ PaymentRegistry[id].from_government # PaymentRegistry[id].to_government
          /\ PaymentRegistry[id].amount > 0

\* C12, the steps: a payment record is created in a state where both of its
\* parties are registered and Active
C12_CreatedWhileActive ==
    \A id \in DOMAIN PaymentRegistry' :
        id \notin Payments
        => LET p == PaymentRegistry'[id]
           IN  /\ Registered(p.from_government) /\ Registered(p.to_government)
               /\ GovernmentRegistry[p.from_government].status = "Active"
               /\ GovernmentRegistry[p.to_government].status = "Active"

\* C12: initiate_payment succeeds only while caller and recipient are both
\* registered and Active, fails with GovernmentNotFound or
\* GovernmentNotActive otherwise, and every payment record was created while
\* both parties were Active, with different parties and amount > 0
C12_InitiateNeedsActiveParties ==
    []C12_ActiveParties /\ [][C12_CreatedWhileActive]_vars

\* C12 witness: a payment from X to Y exists, Y has been revoked since, and
\* X's next initiate_payment to Y fails with GovernmentNotActive and to the
\* unregistered S with GovernmentNotFound
C12_Witness ==
    /\ \E id \in Payments : /\ PaymentRegistry[id].from_government = "X"
                            /\ PaymentRegistry[id].to_government = "Y"
    /\ Registered("Y") /\ GovernmentRegistry["Y"].status = "Revoked"
    /\ ~Registered("S")
    /\ CallInitiate("X", "Y", 1, <<>>, FALSE).res = "GovernmentNotActive"
    /\ CallInitiate("X", "S", 1, <<>>, FALSE).res = "GovernmentNotFound"

History(a) == GovernmentPaymentHistory[a]
\* the payments listed in the history of account a
Listed(a) == {History(a)[i] : i \in 1..Len(History(a))} \cap Payments
Amount == [id \in Payments |-> AmountOf(id)]
\* the Completed payments account a sent, and those it received
CompletedFrom(a) ==
    {id \in Completed : PaymentRegistry[id].from_government = a}
CompletedTo(a) ==
    {id \in Completed : /\ PaymentRegistry[id].from_government # a
                        /\ PaymentRegistry[id].to_government = a}

\* C13: for an account with a history list get_government_stats returns the
\* length of the list as count, the saturating sum of the amounts of the
\* Completed payments of the list that the account sent as total_sent and of
\* those it received as total_received, a payment that is not Completed
\* adding nothing to either; for an account without a list it returns None
C13_StatsOfHistory ==
    \A a \in Accounts :
        LET stats == get_government_stats(Storage, a)
        IN  IF a \in DOMAIN GovernmentPaymentHistory
            THEN /\ stats.some
                 /\ stats.payment_count = Len(History(a))
                 /\ stats.total_sent =
                        Min(SumOver(Listed(a) \cap CompletedFrom(a), Amount), U128Max)
                 /\ stats.total_received =
                        Min(SumOver(Listed(a) \cap CompletedTo(a), Amount), U128Max)
            ELSE ~stats.some

\* C13 witness: an account has two payments in its history, one Completed
\* and one not, and its total_sent is the amount of the Completed one
C13_Witness ==
    \E a \in DOMAIN GovernmentPaymentHistory :
        /\ Len(History(a)) = 2
        /\ \E id \in Listed(a) :
              /\ PaymentRegistry[id].status = "Completed"
              /\ get_government_stats(Storage, a).total_sent = AmountOf(id)
        /\ \E id \in Listed(a) : PaymentRegistry[id].status \in {"Pending", "Cancelled"}
        /\ get_government_stats(Storage, a).payment_count = 2

\* C14 (as claimed): the totals get_government_stats returns for an account
\* are the sums of the amounts of the Completed payments it sent and of the
\* Completed payments it received from other governments
C14_TotalsOfCompleted ==
    \A a \in DOMAIN GovernmentPaymentHistory :
        /\ get_government_stats(Storage, a).total_sent =
               Min(SumOver(CompletedFrom(a), Amount), U128Max)
        /\ get_government_stats(Storage, a).total_received =
               Min(SumOver(CompletedTo(a), Amount), U128Max)

\* the history list of account a in the map, empty when it has none
HistoryIn(map, a) == IF a \in DOMAIN map THEN map[a] ELSE <<>>

\* C15, the states: the history of every account lists, in increasing order
\* and once each, the ids of exactly the payments the account sent
C15_HistoryIsSentIds ==
    \A a \in Accounts :
        LET h == HistoryIn(GovernmentPaymentHistory, a)
        IN  /\ \A i, j \in 1..Len(h) : i < j => h[i] < h[j]
            /\ {h[i] : i \in 1..Len(h)} =
                  {id \in Payments : PaymentRegistry[id].from_government = a}

\* C15, the steps: a history changes only by one id appended, in a step that
\* creates the payment of that id with the account as its sender; no other
\* history changes in that step, and none in a step that creates no payment
C15_HistoryGrows ==
    \A a \in Accounts :
        LET h == HistoryIn(GovernmentPaymentHistory, a)
            h2 == HistoryIn(GovernmentPaymentHistory', a)
        IN  h2 # h
            => /\ h2 = Append(h, NextPaymentId)
               /\ NextPaymentId \notin Payments
               /\ NextPaymentId \in DOMAIN PaymentRegistry'
               /\ PaymentRegistry'[NextPaymentId].from_government = a
               /\ \A b \in Accounts \ {a} :
                     HistoryIn(GovernmentPaymentHistory', b) =
                         HistoryIn(GovernmentPaymentHistory, b)

\* C15: every account's history is the increasing, duplicate-free sequence
\* of the ids of the payments it sent; it grows by one id per successful
\* initiate_payment of the account and no other call changes it, nor does
\* an initiate change the recipient's history
C15_HistoryAppendOnly == []C15_HistoryIsSentIds /\ [][C15_HistoryGrows]_vars

\* C15 witness: X sent payments 0 and 1 to Y; X's history is <<0, 1>> and
\* Y has none
C15_Witness ==
    /\ HistoryIn(GovernmentPaymentHistory, "X") = <<0, 1>>
    /\ "Y" \notin DOMAIN GovernmentPaymentHistory
    /\ \A id \in Payments : PaymentRegistry[id].to_government = "Y"
    /\ \E id \in Payments : PaymentRegistry[id].status = "Completed"

\* C16: on a Pending payment cancel_payment succeeds for the payment's
\* from_government and fails with NotAuthorizedSigner for every other
\* caller, leaving the payment Pending and every balance as it was
C16_OnlyInitiatorCancels ==
    \A id \in Payments, who \in Accounts :
        PaymentRegistry[id].status = "Pending"
        => LET r == CallCancel(who, id)
           IN  IF who = PaymentRegistry[id].from_government
               THEN r.res = "Ok"
               ELSE /\ r.res = "NotAuthorizedSigner"
                    /\ r.st.PaymentRegistry[id].status = "Pending"
                    /\ r.st.reserved = reserved
                    /\ r.st.free = free

\* C16 witness: a Pending payment signed by a signer who is not its sender;
\* the signer and the recipient are refused, the reservation is held
C16_Witness ==
    \E id \in Payments :
        LET p == PaymentRegistry[id]
        IN  /\ p.status = "Pending"
            /\ Len(p.signatures) = 1
            /\ p.signatures[1][1] # p.from_government
            /\ CallCancel(p.signatures[1][1], id).res = "NotAuthorizedSigner"
            /\ CallCancel(p.to_government, id).res = "NotAuthorizedSigner"
            /\ reserved[p.from_government] >= ClampedCost(id)

\* C17, the states: no payment has status Failed
C17_NoFailed ==
    \A id \in Payments :
        PaymentRegistry[id].status \in {"Pending", "Authorized", "Completed", "Cancelled"}

\* C17, the steps: the status of a payment changes only from Pending to
\* Authorized (a signature is appended), from Pending to Cancelled, or from
\* Authorized to Completed
C17_Transitions ==
    \A id \in Payments :
        /\ id \in DOMAIN PaymentRegistry'
        /\ PaymentRegistry'[id].status # PaymentRegistry[id].status
           => \/ /\ PaymentRegistry[id].status = "Pending"
                 /\ PaymentRegistry'[id].status = "Authorized"
                 /\ Signed(id)
              \/ Cancelled(id)
              \/ Executed(id)

\* C17: the only status transitions are Pending to Authorized (sign),
\* Pending to Cancelled (cancel) and Authorized to Completed (execute); an
\* Authorized payment never becomes Cancelled or Pending, and no reachable
\* state holds a Failed payment
C17_OnlyThreeTransitions == []C17_NoFailed /\ [][C17_Transitions]_vars

\* C17 witness: one payment went through Authorized to Completed, another
\* was cancelled
C17_Witness ==
    /\ \E id \in Payments : PaymentRegistry[id].status = "Completed"
    /\ \E id \in Payments : PaymentRegistry[id].status = "Cancelled"

\* C18, the steps: a payment record is created with the signatories the
\* registry holds for its sender at that step as required_signatures, and an
\* existing payment keeps its required_signatures, from_government,
\* to_government and amount
C18_RequiredFixed ==
    \A id \in DOMAIN PaymentRegistry' :
        LET p2 == PaymentRegistry'[id]
        IN  IF id \in Payments
            THEN /\ p2.required_signatures = PaymentRegistry[id].required_signatures
                 /\ p2.from_government = PaymentRegistry[id].from_government
                 /\ p2.to_government = PaymentRegistry[id].to_government
                 /\ p2.amount = PaymentRegistry[id].amount
            ELSE /\ Registered(p2.from_government)
                 /\ p2.required_signatures =
                        GovernmentRegistry[p2.from_government].authorized_signatories

\* C18: required_signatures is the sender's authorized_signatories at the
\* initiate_payment, and no later step changes the required_signatures,
\* from_government, to_government or amount of a payment
C18_RequiredSignaturesFixed == [][C18_RequiredFixed]_vars

\* C18 witness: a payment of X has been signed, executed and X suspended
\* since; the payment still requires the signatories X was registered with
C18_Witness ==
    \E id \in Payments :
        /\ PaymentRegistry[id].from_government = "X"
        /\ PaymentRegistry[id].status = "Completed"
        /\ GovernmentRegistry["X"].status = "Suspended"
        /\ PaymentRegistry[id].required_signatures = <<"X", "S">>

\* C19, the calls and the records: update_government_status by root on a
\* registered account succeeds from every status and changes nothing but
\* the status of that record; on an unregistered account it fails with
\* GovernmentNotFound and changes nothing; every record has
\* signature_threshold > 0
C19_UpdateSetsStatus ==
    /\ \A g \in Accounts, new_status \in GovernmentStatus :
          LET r == dispatch(Storage, update_government_status(Storage, "Root", g,
                                                              new_status))
          IN  IF Registered(g)
              THEN /\ r.res = "Ok"
                   /\ r.st = [Storage EXCEPT !.GovernmentRegistry[g].status = new_status]
              ELSE /\ r.res = "GovernmentNotFound"
                   /\ r.st = Storage
    /\ \A g \in DOMAIN GovernmentRegistry :
          GovernmentRegistry[g].signature_threshold > 0

\* C19, the steps: no government record is deleted, and nothing but the
\* status of a record ever changes
C19_RecordsStay ==
    \A g \in DOMAIN GovernmentRegistry :
        /\ g \in DOMAIN GovernmentRegistry'
        /\ [GovernmentRegistry'[g] EXCEPT !.status = "Active"] =
               [GovernmentRegistry[g] EXCEPT !.status = "Active"]

\* C19: update_government_status sets the status of a registered account
\* from any status and leaves the rest of the record, the country index and
\* the payments alone; on an unregistered account it fails with
\* GovernmentNotFound and creates no record; records are never deleted and
\* every record has signature_threshold > 0
C19_StatusUpdateFrame == []C19_UpdateSetsStatus /\ [][C19_RecordsStay]_vars

\* C19 witness: X has been suspended, Y revoked, a payment exists, and the
\* update of Y from Revoked back to Active succeeds
C19_Witness ==
    /\ Registered("X") /\ GovernmentRegistry["X"].status = "Suspended"
    /\ Registered("Y") /\ GovernmentRegistry["Y"].status = "Revoked"
    /\ Payments # {}
    /\ CallUpdate(<<"Root", "Y", "Active">>).res = "Ok"
    /\ CallUpdate(<<"Root", "Y", "Active">>).st.GovernmentRegistry["Y"].status = "Active"
    /\ CallUpdate(<<"Root", "S", "Active">>).res = "GovernmentNotFound"

\* C20: initiate_payment reserves min(amount + fee, ceiling); cancel_payment
\* of a Pending payment releases that quantity; execute_payment of an
\* Authorized payment whose transfer is not refused takes that quantity,
\* amount transferred plus fee unreserved, out of the sender's reservation,
\* whether or not amount + fee exceeds the ceiling
C20_ReleasedIsReserved ==
    /\ \A origin \in Accounts, to \in Accounts, amount \in Amounts :
          LET r == CallInitiate(origin, to, amount, <<>>, FALSE)
          IN  r.res = "Ok"
              => /\ r.st.reserved[origin] - reserved[origin] =
                        Min(amount + GovernmentTransactionFee, U128Max)
                 /\ free[origin] - r.st.free[origin] =
                        Min(amount + GovernmentTransactionFee, U128Max)
    /\ \A id \in Payments :
          LET p == PaymentRegistry[id]
              X == p.from_government
          IN  /\ p.status = "Pending"
                 => /\ CallCancel(X, id).res = "Ok"
                    /\ reserved[X] - CallCancel(X, id).st.reserved[X] = ClampedCost(id)
              /\ p.status = "Authorized"
                 => \A who \in Accounts, withdraw_refused \in BOOLEAN :
                       LET body == execute_payment(Storage, who, id, FALSE,
                                                   withdraw_refused)
                       IN  /\ body.res \in {"Ok", "WithdrawFailed"}
                           /\ reserved[X] - body.st.reserved[X] = ClampedCost(id)

\* C20 witness: a payment whose amount + fee exceeds the ceiling was
\* cancelled, and another one is Authorized with the ceiling reserved
C20_Witness ==
    /\ \E id \in Payments : /\ PaymentRegistry[id].status = "Cancelled"
                            /\ AmountPlusFee(id) > U128Max
    /\ \E id \in Payments : /\ PaymentRegistry[id].status = "Authorized"
                            /\ AmountPlusFee(id) > U128Max
                            /\ reserved[PaymentRegistry[id].from_government] = U128Max

\* the storage after Root has set the status of a party of a payment
AfterStatus(party, status) ==
    dispatch(Storage, update_government_status(Storage, "Root", party, status)).st

\* the result a call has on the current storage, carried over to a storage
\* that differs from it in the government records only
Carried(r, s) == [r EXCEPT !.st.GovernmentRegistry = s.GovernmentRegistry]

\* what the Currency may refuse in execute_payment: nothing, the transfer,
\* or the withdrawal of the fee
Refusals == {<<FALSE, FALSE>>, <<TRUE, FALSE>>, <<FALSE, TRUE>>}

\* C21, signing: after Root has set either party of a Pending payment to a
\* status other than Active, sign_payment gives every caller the result and
\* the effects it gives before the update; a required signer who has not
\* signed is accepted, and the payment becomes Authorized exactly when that
\* signature reaches the sender's threshold
C21_SignIgnoresStatus ==
    \A id \in Payments :
        LET p == PaymentRegistry[id]
        IN  p.status = "Pending" =>
            \A party \in {p.from_government, p.to_government},
               status \in GovernmentStatus \ {"Active"} :
                LET s == AfterStatus(party, status)
                IN  /\ s.GovernmentRegistry[party].status = status
                    /\ \A who \in Accounts :
                          LET r == dispatch(s, sign_payment(s, who, id, <<>>))
                          IN  /\ r = Carried(CallSign(who, id), s)
                              /\ (is_authorized_signer(p, who) /\ ~already_signed(p, who))
                                 => /\ r.res = "Ok"
                                    /\ Len(r.st.PaymentRegistry[id].signatures) =
                                           Len(p.signatures) + 1
                                    /\ (r.st.PaymentRegistry[id].status = "Authorized")
                                           <=> (Len(p.signatures) + 1 >=
                                                    CurrentThreshold(id))

\* C21, executing: after Root has set either party of an Authorized payment
\* to a status other than Active, execute_payment gives every signed caller
\* one and the same result, the one it gives before the update; when the
\* Currency refuses nothing and amount + fee is within the ceiling, the
\* payment becomes Completed and the amount is added to the recipient's free
\* balance
C21_ExecuteIgnoresStatusAndCaller ==
    \A id \in Payments :
        LET p == PaymentRegistry[id]
        IN  p.status = "Authorized" =>
            \A party \in {p.from_government, p.to_government},
               status \in GovernmentStatus \ {"Active"} :
                LET s == AfterStatus(party, status)
                IN  \A q \in Refusals :
                       LET r == dispatch(s, execute_payment(s, "S", id, q[1], q[2]))
                       IN  /\ r = Carried(CallExecute("S", id, q[1], q[2]), s)
                           /\ \A who \in Accounts \ {"S"} :
                                 dispatch(s, execute_payment(s, who, id, q[1], q[2])) = r
                           /\ (AmountPlusFee(id) <= U128Max /\ q = <<FALSE, FALSE>>)
                              => /\ r.res = "Ok"
                                 /\ r.st.PaymentRegistry[id].status = "Completed"
                                 /\ r.st.free[p.to_government] =
                                        free[p.to_government] + p.amount

\* C21, the steps: payments are signed, authorized and completed whatever
\* the status of their parties is, and such a step leaves every government
\* record as it was
C21_StatusUntouched ==
    \A id \in Payments :
        (Signed(id) \/ Executed(id)) => GovernmentRegistry' = GovernmentRegistry

\* C21: sign_payment and execute_payment do not read the status of the
\* sender or of the recipient, and execute_payment does not read its caller:
\* a payment is signed, authorized and executed to Completed by any signed
\* caller after either party was set to Suspended, Pending or Revoked
C21_StatusAndCallerIgnored ==
    /\ [](C21_SignIgnoresStatus /\ C21_ExecuteIgnoresStatusAndCaller)
    /\ [][C21_StatusUntouched]_vars

\* C21 witness: the sender of a payment is Suspended and its recipient is
\* Revoked; a Pending payment of theirs is signed into Authorized by S, and
\* an Authorized one is executed to Completed by S, who is no party to it
C21_Witness ==
    /\ Registered("X") /\ GovernmentRegistry["X"].status = "Suspended"
    /\ Registered("Y") /\ GovernmentRegistry["Y"].status = "Revoked"
    /\ \E id \in Payments :
          /\ PaymentRegistry[id].from_government = "X"
          /\ PaymentRegistry[id].to_government = "Y"
          /\ PaymentRegistry[id].status = "Pending"
          /\ CallSign("S", id).res = "Ok"
          /\ CallSign("S", id).st.PaymentRegistry[id].status = "Authorized"
    /\ \E id \in Payments :
          /\ PaymentRegistry[id].from_government = "X"
          /\ PaymentRegistry[id].to_government = "Y"
          /\ PaymentRegistry[id].status = "Authorized"
          /\ CallExecute("S", id, FALSE, FALSE).res = "Ok"
          /\ CallExecute("S", id, FALSE, FALSE).st.PaymentRegistry[id].status =
                 "Completed"

\* the distinct accounts of a list of signatories
Distinct(signatories) == {signatories[i] : i \in 1..Len(signatories)}

\* a payment whose sender's threshold is above the number of distinct
\* accounts that may sign it
OverThreshold(id) ==
    CurrentThreshold(id) > Cardinality(Distinct(PaymentRegistry[id].required_signatures))

\* C22, registration: a root registration of a fresh account with a country
\* code of allowed length and a threshold above the number of distinct
\* signatories is accepted and stored as given
C22_RegistrationAccepted ==
    \A q \in OverRegisterRequests :
        ( /\ RegisterOk(q)
          /\ ~Registered(q[2])
          /\ q[6] > Cardinality(Distinct(q[7])) )
        => LET r == CallRegister(q)
           IN  /\ r.res = "Ok"
               /\ r.st.GovernmentRegistry[q[2]].signature_threshold = q[6]
               /\ r.st.GovernmentRegistry[q[2]].authorized_signatories = q[7]

\* C22, the states: a payment of such a sender is Pending or Cancelled and
\* holds fewer signatures than the threshold; while Pending, the sender's
\* reserved balance covers min(amount + fee, ceiling), no signature of any
\* caller takes it out of Pending, nobody can execute it, the initiator can
\* cancel it and nobody else can
C22_StuckPending ==
    \A id \in Payments :
        LET p == PaymentRegistry[id]
        IN  OverThreshold(id)
            => /\ p.status \in {"Pending", "Cancelled"}
               /\ Len(p.signatures) < CurrentThreshold(id)
               /\ p.status = "Pending"
                  => /\ reserved[p.from_government] >= ClampedCost(id)
                     /\ \A who \in Accounts :
                           /\ CallSign(who, id).st.PaymentRegistry[id].status = "Pending"
                           /\ \A q \in Refusals :
                                 CallExecute(who, id, q[1], q[2]).res =
                                     "PaymentNotPending"
                           /\ (CallCancel(who, id).res = "Ok")
                                  <=> (who = p.from_government)

\* C22, the steps: such a payment stays such a payment, and its status
\* changes only from Pending to Cancelled, in a step that releases
\* min(amount + fee, ceiling) from the sender's reserved balance
C22_OnlyCancel ==
    \A id \in Payments :
        OverThreshold(id)
        => /\ OverThreshold(id)'
           /\ PaymentRegistry'[id].status # PaymentRegistry[id].status
              => /\ PaymentRegistry[id].status = "Pending"
                 /\ PaymentRegistry'[id].status = "Cancelled"
                 /\ reserved'[PaymentRegistry[id].from_government] =
                        reserved[PaymentRegistry[id].from_government] - ClampedCost(id)

\* C22: register_government accepts a threshold above the number of distinct
\* signatories; a payment initiated by such a government never becomes
\* Authorized or Completed: it stays Pending with its reservation held until
\* its initiator cancels it, and that is its only transition
C22_NeverAuthorized ==
    /\ [](C22_RegistrationAccepted /\ C22_StuckPending)
    /\ [][C22_OnlyCancel]_vars

\* C22 (as claimed): while such a payment is Pending, amount + fee is held
\* in the sender's reserved balance
C22_AmountPlusFeeReserved ==
    \A id \in Payments :
        (OverThreshold(id) /\ PaymentRegistry[id].status = "Pending")
        => reserved[PaymentRegistry[id].from_government] >= AmountPlusFee(id)

\* C22 witness: Y, registered with threshold 2 and the signatory list
\* <<S, S>>, has a Pending payment that S, its only signer, has signed; the
\* reservation is held, S's second attempt is refused and Y can cancel
C22_Witness ==
    \E id \in Payments :
        /\ PaymentRegistry[id].from_government = "Y"
        /\ PaymentRegistry[id].required_signatures = <<"S", "S">>
        /\ OverThreshold(id)
        /\ PaymentRegistry[id].status = "Pending"
        /\ Len(PaymentRegistry[id].signatures) = 1
        /\ PaymentRegistry[id].signatures[1][1] = "S"
        /\ reserved["Y"] = AmountPlusFee(id)
        /\ CallSign("S", id).res = "SignatureAlreadyProvided"
        /\ CallCancel("Y", id).res = "Ok"

====
